---- MODULE Spec2Model ----
(***************************************************************************)
(* Validators::ManagerImp (src/src/ripple/validators/impl/Manager.cpp):    *)
(* the worker thread that owns Logic, the ServiceQueue that serialises     *)
(* every mutation of Logic, the check timer and the m_checkSources flag.   *)
(*                                                                         *)
(* Threads: the worker (run), any number of callers (the RPC handlers, the *)
(* add* functions, receiveValidation, ledgerClosed, onStart, onStop) and   *)
(* the DeadlineTimer thread (onDeadlineTimer).  A Logic operation takes    *)
(* time: the worker enters it in one step and leaves it in another, so     *)
(* that what other threads do meanwhile is visible.                        *)
(***************************************************************************)
EXTENDS Naturals, Sequences, FiniteSets

VARIABLES
    wpc,             \* where the worker thread is (see WorkerPcs)
    m_checkSources,  \* ManagerImp::m_checkSources
    timer,           \* m_checkTimer: "inactive" or armed with "checkEverySeconds"
    queue,           \* m_queue: handlers dispatched and not yet taken, oldest first
    cur,             \* the handler run_one took most recently
    shouldExit,      \* Thread::threadShouldExit()
    stopping,        \* Stoppable::isStopping()
    stoppedCalls,    \* how many times stopped() was reported
    storeOpen,       \* m_store: "unopened", "ok" or "failed"
    loaded,          \* Logic::load has run
    stored,          \* the dynamic Sources the Store holds from an earlier run
    logic,           \* the state of m_logic
    callerInLogic,   \* the Logic call a caller's thread is inside, or "none"
    nextId,          \* handlers dispatched so far (a handler's id is its rank)
    executed,        \* handlers the worker has finished
    rets,            \* values fetch_one returned in the current pass
    passN,           \* number of dynamic Sources when the current pass began
    turnFetches,     \* fetch_one calls since the last handler finished
    calls,           \* enqueueing calls made by callers
    fires,           \* expiries of the check timer
    ingress,         \* the call that has passed its isStopping() test and has
                     \* not dispatched yet: "idle", "receiveValidation", "ledgerClosed"
    RIPPLE_USE_NEW_VALIDATORS
                     \* the build: whether the bodies of receiveValidation and
                     \* ledgerClosed are compiled in (#if at lines 246 and 257);
                     \* the file does not define the macro, the build may

vars == <<wpc, m_checkSources, timer, queue, cur, shouldExit, stopping,
          stoppedCalls, storeOpen, loaded, stored, logic, callerInLogic,
          nextId, executed, rets, passN, turnFetches, calls, fires, ingress,
          RIPPLE_USE_NEW_VALIDATORS>>

\* Bounds of the model.
MaxCalls == 2
MaxTimerFires == 2

DynIds == {"u1", "u2"}
StaticIds == {"s1"}
StoredChoices == {<< >>, <<"u1">>, <<"u1", "u2">>}
FetchOutcomes == {"ok", "transient", "malformed"}

WorkerPcs == {"notStarted", "init", "while", "fetching", "run_one", "handler", "stopped"}

LogicOps == {"add", "addStatic", "receiveValidation", "ledgerClosed", "buildChosen"}

NoHandler == [op |-> "none", arg |-> "none", id |-> 0]

Range(s) == {s[i] : i \in DOMAIN s}

Last(s) == s[Len(s)]

----------------------------------------------------------------------------
\* Logic (its contract; the class itself is outside this file)

LogicInit ==
    [sources |-> << >>, statics |-> {}, cursor |-> 0, degraded |-> {},
     validations |-> 0, ledgers |-> 0, builds |-> 0]

LogicKnows(L, s) == s \in Range(L.sources) \cup L.statics

LogicLoad(L, persisted) == [L EXCEPT !.sources = persisted]

LogicAdd(L, s) ==
    IF LogicKnows(L, s) THEN L ELSE [L EXCEPT !.sources = Append(@, s)]

LogicAddStatic(L, s) ==
    IF LogicKnows(L, s) THEN L ELSE [L EXCEPT !.statics = @ \cup {s}]

LogicReceiveValidation(L) == [L EXCEPT !.validations = @ + 1]

LogicLedgerClosed(L) == [L EXCEPT !.ledgers = @ + 1]

LogicBuildChosen(L) == [L EXCEPT !.builds = @ + 1]

\* fetch_one: what it returns, the number of Sources not yet visited
fetch_one_ret(L) ==
    IF Len(L.sources) = 0 THEN 0 ELSE Len(L.sources) - (L.cursor + 1)

\* fetch_one: what it leaves behind
fetch_one_state(L, outcome) ==
    IF Len(L.sources) = 0 THEN L
    ELSE LET s == L.sources[L.cursor + 1]
             c == IF L.cursor + 1 = Len(L.sources) THEN 0 ELSE L.cursor + 1
         IN [L EXCEPT !.cursor = c,
                      !.degraded = IF outcome = "malformed" THEN @ \cup {s}
                                   ELSE IF outcome = "ok" THEN @ \ {s} ELSE @]

----------------------------------------------------------------------------
\* ServiceQueue

dispatch(q, op, arg, id) == Append(q, [op |-> op, arg |-> arg, id |-> id])

\* run_one waits until a handler is there to run
run_one_ready(q) == q # << >>

run_one_take(q) == Head(q)

run_one_rest(q) == Tail(q)

----------------------------------------------------------------------------
\* mutant of Init: m_checkSources starts false
Init_flagFalse ==
    /\ wpc = "notStarted"
    /\ m_checkSources = FALSE
    /\ timer = "inactive"
    /\ queue = << >>
    /\ cur = NoHandler
    /\ shouldExit = FALSE
    /\ stopping = FALSE
    /\ stoppedCalls = 0
    /\ storeOpen = "unopened"
    /\ loaded = FALSE
    /\ stored \in StoredChoices
    /\ logic = LogicInit
    /\ callerInLogic = "none"
    /\ nextId = 0
    /\ executed = 0
    /\ rets = << >>
    /\ passN = 0
    /\ turnFetches = 0
    /\ calls = 0
    /\ fires = 0
    /\ ingress = "idle"
    /\ RIPPLE_USE_NEW_VALIDATORS \in BOOLEAN

Init ==
    /\ wpc = "notStarted"
    /\ m_checkSources = TRUE
    /\ timer = "inactive"
    /\ queue = << >>
    /\ cur = NoHandler
    /\ shouldExit = FALSE
    /\ stopping = FALSE
    /\ stoppedCalls = 0
    /\ storeOpen = "unopened"
    /\ loaded = FALSE
    /\ stored \in StoredChoices
    /\ logic = LogicInit
    /\ callerInLogic = "none"
    /\ nextId = 0
    /\ executed = 0
    /\ rets = << >>
    /\ passN = 0
    /\ turnFetches = 0
    /\ calls = 0
    /\ fires = 0
    /\ ingress = "idle"
    /\ RIPPLE_USE_NEW_VALIDATORS \in BOOLEAN

----------------------------------------------------------------------------
\* Callers: any thread but the worker

isThreadRunning == wpc \notin {"notStarted", "stopped"}

onStart ==
    /\ wpc = "notStarted"
    /\ ~stopping
    /\ wpc' = "init"
    /\ UNCHANGED <<m_checkSources, timer, queue, cur, shouldExit, stopping,
                   stoppedCalls, storeOpen, loaded, stored, logic, callerInLogic,
                   nextId, executed, rets, passN, turnFetches, calls, fires>>
    /\ UNCHANGED <<ingress, RIPPLE_USE_NEW_VALIDATORS>>

\* mutant of onStop: stopped() is reported whether or not the thread runs
onStop_always ==
    /\ ~stopping
    /\ stopping' = TRUE
    /\ stoppedCalls' = stoppedCalls + 1
    /\ IF isThreadRunning
       THEN /\ queue' = dispatch(queue, "signalThreadShouldExit", "none", nextId + 1)
            /\ nextId' = nextId + 1
       ELSE UNCHANGED <<queue, nextId>>
    /\ UNCHANGED <<wpc, m_checkSources, timer, cur, shouldExit, storeOpen, loaded,
                   stored, logic, callerInLogic, executed, rets, passN,
                   turnFetches, calls, fires, ingress, RIPPLE_USE_NEW_VALIDATORS>>

onStop ==
    /\ ~stopping
    /\ stopping' = TRUE
    /\ IF isThreadRunning
       THEN /\ queue' = dispatch(queue, "signalThreadShouldExit", "none", nextId + 1)
            /\ nextId' = nextId + 1
            /\ UNCHANGED stoppedCalls
       ELSE /\ stoppedCalls' = stoppedCalls + 1
            /\ UNCHANGED <<queue, nextId>>
    /\ UNCHANGED <<wpc, m_checkSources, timer, cur, shouldExit, storeOpen, loaded,
                   stored, logic, callerInLogic, executed, rets, passN,
                   turnFetches, calls, fires>>
    /\ UNCHANGED <<ingress, RIPPLE_USE_NEW_VALIDATORS>>

\* what every enqueueing call leaves alone
CallerFrame ==
    UNCHANGED <<wpc, m_checkSources, timer, cur, shouldExit, stopping,
                stoppedCalls, storeOpen, loaded, stored, callerInLogic,
                executed, rets, passN, turnFetches, fires>>

Enqueue(op, arg) ==
    /\ queue' = dispatch(queue, op, arg, nextId + 1)
    /\ nextId' = nextId + 1

\* mutant of rpcPrint: the request is queued like a rebuild
rpcPrint_enqueues ==
    /\ callerInLogic = "none"
    /\ callerInLogic' = "rpcPrint"
    /\ Enqueue("buildChosen", "none")
    /\ UNCHANGED <<wpc, m_checkSources, timer, cur, shouldExit, stopping,
                   stoppedCalls, storeOpen, loaded, stored, logic,
                   executed, rets, passN, turnFetches, calls, fires, ingress, RIPPLE_USE_NEW_VALIDATORS>>

rpcPrint ==
    /\ callerInLogic = "none"
    /\ callerInLogic' = "rpcPrint"
    /\ UNCHANGED <<wpc, m_checkSources, timer, queue, cur, shouldExit, stopping,
                   stoppedCalls, storeOpen, loaded, stored, logic, nextId,
                   executed, rets, passN, turnFetches, calls, fires>>
    /\ UNCHANGED <<ingress, RIPPLE_USE_NEW_VALIDATORS>>

rpcSources ==
    /\ callerInLogic = "none"
    /\ callerInLogic' = "rpcSources"
    /\ UNCHANGED <<wpc, m_checkSources, timer, queue, cur, shouldExit, stopping,
                   stoppedCalls, storeOpen, loaded, stored, logic, nextId,
                   executed, rets, passN, turnFetches, calls, fires>>
    /\ UNCHANGED <<ingress, RIPPLE_USE_NEW_VALIDATORS>>

\* Logic::rpcPrint / Logic::rpcSources return to the caller
rpcReturn ==
    /\ callerInLogic # "none"
    /\ callerInLogic' = "none"
    /\ UNCHANGED <<wpc, m_checkSources, timer, queue, cur, shouldExit, stopping,
                   stoppedCalls, storeOpen, loaded, stored, logic, nextId,
                   executed, rets, passN, turnFetches, calls, fires>>
    /\ UNCHANGED <<ingress, RIPPLE_USE_NEW_VALIDATORS>>

\* mutant of rpcRebuild: builds on the caller's thread
rpcRebuild_inline ==
    /\ calls < MaxCalls
    /\ calls' = calls + 1
    /\ logic' = LogicBuildChosen(logic)
    /\ UNCHANGED <<queue, nextId>>
    /\ CallerFrame
    /\ UNCHANGED <<ingress, RIPPLE_USE_NEW_VALIDATORS>>

rpcRebuild ==
    /\ calls < MaxCalls
    /\ calls' = calls + 1
    /\ Enqueue("buildChosen", "none")
    /\ UNCHANGED logic
    /\ CallerFrame
    /\ UNCHANGED <<ingress, RIPPLE_USE_NEW_VALIDATORS>>

addSource ==
    \E s \in DynIds :
        /\ calls < MaxCalls
        /\ calls' = calls + 1
        /\ Enqueue("add", s)
        /\ UNCHANGED logic
        /\ CallerFrame
        /\ UNCHANGED <<ingress, RIPPLE_USE_NEW_VALIDATORS>>

addStaticSource ==
    \E s \in StaticIds :
        /\ calls < MaxCalls
        /\ calls' = calls + 1
        /\ Enqueue("addStatic", s)
        /\ UNCHANGED logic
        /\ CallerFrame
        /\ UNCHANGED <<ingress, RIPPLE_USE_NEW_VALIDATORS>>

\* mutant of receiveValidation: "just do this on the callers thread"
receiveValidation_inline ==
    /\ calls < MaxCalls
    /\ calls' = calls + 1
    /\ IF RIPPLE_USE_NEW_VALIDATORS /\ ~stopping
       THEN logic' = LogicReceiveValidation(logic)
       ELSE UNCHANGED logic
    /\ UNCHANGED <<queue, nextId, ingress, RIPPLE_USE_NEW_VALIDATORS>>
    /\ CallerFrame

\* mutant of receiveValidation: isStopping() is not looked at
receiveValidation_noTest ==
    /\ calls < MaxCalls
    /\ ingress = "idle"
    /\ calls' = calls + 1
    /\ ingress' = IF RIPPLE_USE_NEW_VALIDATORS
                  THEN "receiveValidation" ELSE "idle"
    /\ UNCHANGED <<queue, nextId, logic, RIPPLE_USE_NEW_VALIDATORS>>
    /\ CallerFrame

\* receiveValidation, up to its test of isStopping(): the caller goes on to
\* dispatch only if the service was not stopping when it looked
receiveValidation ==
    /\ calls < MaxCalls
    /\ ingress = "idle"
    /\ calls' = calls + 1
    /\ ingress' = IF RIPPLE_USE_NEW_VALIDATORS /\ ~stopping
                  THEN "receiveValidation" ELSE "idle"
    /\ UNCHANGED <<queue, nextId, logic, RIPPLE_USE_NEW_VALIDATORS>>
    /\ CallerFrame

\* mutant of ledgerClosed: Logic::ledgerClosed is called on the caller's thread
ledgerClosed_inline ==
    /\ calls < MaxCalls
    /\ ingress = "idle"
    /\ calls' = calls + 1
    /\ IF RIPPLE_USE_NEW_VALIDATORS /\ ~stopping
       THEN logic' = LogicLedgerClosed(logic)
       ELSE UNCHANGED logic
    /\ UNCHANGED <<queue, nextId, ingress, RIPPLE_USE_NEW_VALIDATORS>>
    /\ CallerFrame

\* ledgerClosed, up to its test of isStopping()
ledgerClosed ==
    /\ calls < MaxCalls
    /\ ingress = "idle"
    /\ calls' = calls + 1
    /\ ingress' = IF RIPPLE_USE_NEW_VALIDATORS /\ ~stopping
                  THEN "ledgerClosed" ELSE "idle"
    /\ UNCHANGED <<queue, nextId, logic, RIPPLE_USE_NEW_VALIDATORS>>
    /\ CallerFrame

\* the rest of receiveValidation / ledgerClosed: m_queue.dispatch (bind (...))
ingressDispatch ==
    /\ ingress # "idle"
    /\ Enqueue(ingress, "none")
    /\ ingress' = "idle"
    /\ UNCHANGED <<logic, calls, RIPPLE_USE_NEW_VALIDATORS>>
    /\ CallerFrame

\* mutant of onDeadlineTimer: the flag is set on the timer's thread
onDeadlineTimer_direct ==
    /\ timer = "checkEverySeconds"
    /\ fires < MaxTimerFires
    /\ fires' = fires + 1
    /\ timer' = "inactive"
    /\ m_checkSources' = TRUE
    /\ UNCHANGED <<wpc, queue, nextId, cur, shouldExit, stopping, stoppedCalls,
                   storeOpen, loaded, stored, logic, callerInLogic, executed,
                   rets, passN, turnFetches, calls, ingress, RIPPLE_USE_NEW_VALIDATORS>>

\* The DeadlineTimer thread: the timer is one-shot
onDeadlineTimer ==
    /\ timer = "checkEverySeconds"
    /\ fires < MaxTimerFires
    /\ fires' = fires + 1
    /\ timer' = "inactive"
    /\ Enqueue("setCheckSources", "none")
    /\ UNCHANGED <<wpc, m_checkSources, cur, shouldExit, stopping, stoppedCalls,
                   storeOpen, loaded, stored, logic, callerInLogic, executed,
                   rets, passN, turnFetches, calls>>
    /\ UNCHANGED <<ingress, RIPPLE_USE_NEW_VALIDATORS>>

----------------------------------------------------------------------------
\* The worker thread: run()

\* init(): open the Store; load only if it opened
init ==
    /\ wpc = "init"
    /\ \E ok \in BOOLEAN :
          /\ storeOpen' = IF ok THEN "ok" ELSE "failed"
          /\ loaded' = ok
          /\ logic' = IF ok THEN LogicLoad(logic, stored) ELSE logic
    /\ wpc' = "while"
    /\ UNCHANGED <<m_checkSources, timer, queue, cur, shouldExit, stopping,
                   stoppedCalls, stored, callerInLogic, nextId, executed, rets,
                   passN, turnFetches, calls, fires>>
    /\ UNCHANGED <<ingress, RIPPLE_USE_NEW_VALIDATORS>>

\* mutant of threadShouldExit: the loop never sees the exit signal
threadShouldExit_never(se) == FALSE

\* the loop condition of run()
threadShouldExit(se) == se

\* The top of the loop: leave and report stopped(), or call checkSources(),
\* which enters fetch_one when m_checkSources is set.
run_loop ==
    /\ wpc = "while"
    /\ IF threadShouldExit(shouldExit)
       THEN /\ wpc' = "stopped"
            /\ stoppedCalls' = stoppedCalls + 1
            /\ UNCHANGED <<rets, passN, turnFetches>>
       ELSE IF m_checkSources
       THEN /\ wpc' = "fetching"
            /\ turnFetches' = turnFetches + 1
            /\ IF logic.cursor = 0
               THEN passN' = Len(logic.sources) /\ rets' = << >>
               ELSE UNCHANGED <<passN, rets>>
            /\ UNCHANGED stoppedCalls
       ELSE /\ wpc' = "run_one"
            /\ UNCHANGED <<stoppedCalls, rets, passN, turnFetches>>
    /\ UNCHANGED <<m_checkSources, timer, queue, cur, shouldExit, stopping,
                   storeOpen, loaded, stored, logic, callerInLogic, nextId,
                   executed, calls, fires>>
    /\ UNCHANGED <<ingress, RIPPLE_USE_NEW_VALIDATORS>>

\* mutant of checkSourcesFlag: the flag is cleared after any fetch
checkSourcesFlag_always(ret) == FALSE

\* checkSources(): m_checkSources after fetch_one returned ret
checkSourcesFlag(ret) == IF ret = 0 THEN FALSE ELSE TRUE

\* mutant of checkSourcesTimer: the timer is set after every fetch_one
checkSourcesTimer_every(ret, t) == "checkEverySeconds"

\* checkSources(): m_checkTimer after fetch_one returned ret
checkSourcesTimer(ret, t) == IF ret = 0 THEN "checkEverySeconds" ELSE t

\* mutant of AfterCheckSources: checkSources() is called again at once
AfterCheckSources_again == "while"

\* run(): what follows checkSources()
AfterCheckSources == "run_one"

\* mutant of checkSources: the pass is only closed by a pull that succeeded
checkSources_okOnly ==
    /\ wpc = "fetching"
    /\ \E outcome \in FetchOutcomes :
          /\ logic' = fetch_one_state(logic, outcome)
          /\ LET ret == fetch_one_ret(logic)
             IN /\ rets' = Append(rets, ret)
                /\ m_checkSources' = IF outcome = "ok" THEN checkSourcesFlag(ret)
                                     ELSE m_checkSources
                /\ timer' = IF outcome = "ok" THEN checkSourcesTimer(ret, timer)
                            ELSE timer
    /\ wpc' = AfterCheckSources
    /\ UNCHANGED <<queue, cur, shouldExit, stopping, stoppedCalls, storeOpen,
                   loaded, stored, callerInLogic, nextId, executed, passN,
                   turnFetches, calls, fires, ingress, RIPPLE_USE_NEW_VALIDATORS>>

\* checkSources(): fetch_one returns
checkSources ==
    /\ wpc = "fetching"
    /\ \E outcome \in FetchOutcomes :
          logic' = fetch_one_state(logic, outcome)
    /\ LET ret == fetch_one_ret(logic)
       IN /\ rets' = Append(rets, ret)
          /\ m_checkSources' = checkSourcesFlag(ret)
          /\ timer' = checkSourcesTimer(ret, timer)
    /\ wpc' = AfterCheckSources
    /\ UNCHANGED <<queue, cur, shouldExit, stopping, stoppedCalls, storeOpen,
                   loaded, stored, callerInLogic, nextId, executed, passN,
                   turnFetches, calls, fires>>
    /\ UNCHANGED <<ingress, RIPPLE_USE_NEW_VALIDATORS>>

\* m_queue.run_one(): take the oldest handler and start it
run_one ==
    /\ wpc = "run_one"
    /\ run_one_ready(queue)
    /\ cur' = run_one_take(queue)
    /\ queue' = run_one_rest(queue)
    /\ wpc' = "handler"
    /\ UNCHANGED <<m_checkSources, timer, shouldExit, stopping, stoppedCalls,
                   storeOpen, loaded, stored, logic, callerInLogic, nextId,
                   executed, rets, passN, turnFetches, calls, fires>>
    /\ UNCHANGED <<ingress, RIPPLE_USE_NEW_VALIDATORS>>

\* what the bound call does to Logic
HandlerLogic(h, L) ==
    CASE h.op = "add" -> LogicAdd(L, h.arg)
      [] h.op = "addStatic" -> LogicAddStatic(L, h.arg)
      [] h.op = "receiveValidation" -> LogicReceiveValidation(L)
      [] h.op = "ledgerClosed" -> LogicLedgerClosed(L)
      [] h.op = "buildChosen" -> LogicBuildChosen(L)
      [] OTHER -> L

\* mutant of HandlerFlag: a rebuild also ends the pass
HandlerFlag_rebuildClears(h, flag) ==
    IF h.op = "setCheckSources" THEN TRUE
    ELSE IF h.op = "buildChosen" THEN FALSE ELSE flag

\* what the bound call does to m_checkSources (setCheckSources sets it)
HandlerFlag(h, flag) == IF h.op = "setCheckSources" THEN TRUE ELSE flag

\* mutant of HandlerExit: the exit signal is lost
HandlerExit_lost(h, se) == se

\* what the bound call does to the exit signal (Thread::signalThreadShouldExit)
HandlerExit(h, se) == IF h.op = "signalThreadShouldExit" THEN TRUE ELSE se

\* the handler run_one started returns
run_handler ==
    /\ wpc = "handler"
    /\ logic' = HandlerLogic(cur, logic)
    /\ m_checkSources' = HandlerFlag(cur, m_checkSources)
    /\ shouldExit' = HandlerExit(cur, shouldExit)
    /\ executed' = executed + 1
    /\ turnFetches' = 0
    /\ wpc' = "while"
    /\ UNCHANGED <<timer, queue, cur, stopping, stoppedCalls, storeOpen, loaded,
                   stored, callerInLogic, nextId, rets, passN, calls, fires>>
    /\ UNCHANGED <<ingress, RIPPLE_USE_NEW_VALIDATORS>>

----------------------------------------------------------------------------
Worker == init \/ run_loop \/ checkSources \/ run_one \/ run_handler

Next ==
    \/ onStart
    \/ onStop
    \/ rpcPrint
    \/ rpcSources
    \/ rpcReturn
    \/ rpcRebuild
    \/ addSource
    \/ addStaticSource
    \/ receiveValidation
    \/ ledgerClosed
    \/ ingressDispatch
    \/ onDeadlineTimer
    \/ init
    \/ run_loop
    \/ checkSources
    \/ run_one
    \/ run_handler

Spec == Init /\ [][Next]_vars

\* The worker thread is scheduled and every call it makes returns; an armed
\* timer expires.  Callers are under no obligation to call.
FairSpec ==
    /\ Spec
    /\ WF_vars(init)
    /\ WF_vars(run_loop)
    /\ WF_vars(checkSources)
    /\ WF_vars(run_one)
    /\ WF_vars(run_handler)
    /\ WF_vars(onDeadlineTimer)

\* The same, without rpcPrint and rpcSources: they change callerInLogic
\* alone, which no step of the worker or of the timer reads.
LiveNext ==
    \/ onStart
    \/ onStop
    \/ rpcRebuild
    \/ addSource
    \/ addStaticSource
    \/ receiveValidation
    \/ ledgerClosed
    \/ ingressDispatch
    \/ onDeadlineTimer
    \/ init
    \/ run_loop
    \/ checkSources
    \/ run_one
    \/ run_handler

LiveSpec ==
    /\ Init
    /\ [][LiveNext]_vars
    /\ WF_vars(init)
    /\ WF_vars(run_loop)
    /\ WF_vars(checkSources)
    /\ WF_vars(run_one)
    /\ WF_vars(run_handler)
    /\ WF_vars(onDeadlineTimer)

TypeOK ==
    /\ wpc \in WorkerPcs
    /\ m_checkSources \in BOOLEAN
    /\ timer \in {"inactive", "checkEverySeconds"}
    /\ storeOpen \in {"unopened", "ok", "failed"}
    /\ callerInLogic \in {"none", "rpcPrint", "rpcSources"}
    /\ stored \in StoredChoices
    /\ Len(queue) <= nextId
    /\ ingress \in {"idle", "receiveValidation", "ledgerClosed"}
    /\ RIPPLE_USE_NEW_VALIDATORS \in BOOLEAN

----------------------------------------------------------------------------
\* Steps of the worker, as the properties below name them

\* fetch_one returns r to checkSources()
FetchReturns(r) == wpc = "fetching" /\ wpc' # "fetching" /\ Last(rets') = r

\* run_one takes a handler from the queue and starts it
HandlerStarts == wpc = "run_one" /\ wpc' = "handler"

\* the handler that was started returns
HandlerReturns == wpc = "handler" /\ wpc' # "handler"

\* init() returns
InitReturns == wpc = "init" /\ wpc' # "init"

----------------------------------------------------------------------------
\* C1: in a pass over N dynamic Sources (none added meanwhile) the values
\* fetch_one returns are N-1, N-2, ..., 0; m_checkSources goes from true to
\* false only in the checkSources step whose fetch_one returned 0, and the
\* check timer is armed with the interval in that step and in no other.
C1_RetsCountDown ==
    (passN >= 1 /\ Len(logic.sources) = passN)
        => \A i \in 1..Len(rets) : rets[i] = passN - i

C1_ClearAndRearm ==
    /\ (m_checkSources /\ ~m_checkSources') => FetchReturns(0)
    /\ FetchReturns(0) => (~m_checkSources' /\ timer' = "checkEverySeconds")
    /\ (timer = "inactive" /\ timer' = "checkEverySeconds") => FetchReturns(0)

C1_PassSequence == []C1_RetsCountDown /\ [][C1_ClearAndRearm]_vars

\* a pass over two Sources has just completed
C1_Witness ==
    /\ passN = 2
    /\ rets = <<1, 0>>
    /\ ~m_checkSources
    /\ timer = "checkEverySeconds"

\* C2: while m_checkSources is set, no step other than a fetch_one that
\* returns 0 clears it or arms the timer: not a handler the worker runs
\* (rebuild, add, receiveValidation, ledgerClosed, setCheckSources), not a
\* call that enqueues one, not a timer expiry.
C2_FlagPersists ==
    [][(m_checkSources /\ ~FetchReturns(0))
          => (m_checkSources' /\ timer' = "inactive")]_vars

\* receiveValidation ran in the middle of a pass and the flag is still set
C2_Witness ==
    /\ wpc = "while"
    /\ cur.op = "receiveValidation"
    /\ logic.validations >= 1
    /\ logic.cursor >= 1
    /\ m_checkSources
    /\ timer = "inactive"

\* C3: whenever m_checkSources is set, the worker thread is running and no
\* stop has been requested, the pass eventually completes (the flag is
\* cleared), whatever the callers do from then on, also when they enqueue
\* nothing more.
C3_PassCompletes ==
    (m_checkSources /\ isThreadRunning /\ ~stopping)
        ~> (~m_checkSources \/ stopping)

\* C4: the worker never calls fetch_one twice without finishing a queued
\* handler in between: a turn of the loop holds at most one fetch_one.
C4_OneFetchPerTurn == turnFetches <= 1

\* the second fetch_one of a pass is under way, one handler after the first
C4_Witness ==
    /\ wpc = "fetching"
    /\ logic.cursor >= 1
    /\ Len(rets) >= 1
    /\ executed >= 1
    /\ turnFetches = 1

\* C5: no Logic operation ever overlaps another: while the worker is inside
\* Logic (load in init, fetch_one, a queued Logic handler) no other thread is
\* inside Logic.
C5_NeverOverlapping ==
    ~(/\ callerInLogic # "none"
      /\ \/ wpc \in {"init", "fetching"}
         \/ (wpc = "handler" /\ cur.op \in LogicOps))

\* C5, what holds: Logic changes only in steps of the worker (init, fetch_one, a queued
\* handler), one operation at a time; the worker takes the handlers in the
\* order they were dispatched; and when it has drained the queue with no
\* stop requested, every handler dispatched has run exactly once.
C5_OnlyWorkerMutates ==
    (logic' # logic) => (InitReturns \/ (wpc = "fetching" /\ wpc' # "fetching") \/ HandlerReturns)

C5_Fifo == HandlerStarts => cur'.id = executed + 1

C5_Drained ==
    (~stopping /\ wpc = "run_one" /\ queue = << >>) => executed = nextId

C5_Serialized ==
    /\ []C5_Drained
    /\ [][C5_OnlyWorkerMutates /\ C5_Fifo]_vars

\* a receiveValidation and a ledgerClosed, enqueued by callers, have both run
C5_Witness ==
    /\ executed >= 2
    /\ logic.validations >= 1
    /\ logic.ledgers >= 1

\* C6: no caller's thread is ever inside Logic.
C6_CallersOnlyEnqueue == callerInLogic = "none"

\* C7: after a failed open of the Store the worker calls no fetch_one and
\* runs no queued Logic operation.
C7_NoRunAfterFailedOpen ==
    storeOpen = "failed"
        => /\ wpc # "fetching"
           /\ ~(wpc = "handler" /\ cur.op \in LogicOps)

\* C8: buildChosen runs only as a handler on the worker, never in the step
\* of the rebuild request; the request appends exactly one buildChosen
\* handler and leaves Logic, the flag and the timer alone; the handler, when
\* the worker runs it, builds once and leaves the flag and the timer alone.
C8_BuildOnWorkerOnly ==
    (logic'.builds # logic.builds)
        => (HandlerReturns /\ cur.op = "buildChosen")

C8_HandlerBuilds ==
    (HandlerReturns /\ cur.op = "buildChosen")
        => /\ logic'.builds = logic.builds + 1
           /\ m_checkSources' = m_checkSources
           /\ timer' = timer

C8_RequestEnqueuesOne ==
    (Len(queue') > Len(queue) /\ Last(queue').op = "buildChosen")
        => /\ Len(queue') = Len(queue) + 1
           /\ SubSeq(queue', 1, Len(queue)) = queue
           /\ logic' = logic
           /\ m_checkSources' = m_checkSources
           /\ timer' = timer

C8_Rebuild ==
    [][C8_BuildOnWorkerOnly /\ C8_HandlerBuilds /\ C8_RequestEnqueuesOne]_vars

\* a rebuild has just run in the middle of a pass, the flag still set
C8_Witness ==
    /\ wpc = "while"
    /\ cur.op = "buildChosen"
    /\ logic.builds >= 1
    /\ logic.cursor >= 1
    /\ m_checkSources

\* C9 as claimed: once a stop has been requested the worker starts no queued
\* operation (but the exit signal itself).
C9_NoOperationAfterStopRequest ==
    [][(stopping /\ HandlerStarts) => cur'.op = "signalThreadShouldExit"]_vars

\* C9 as amended: the exit signal waits its turn in the queue: every handler
\* dispatched before it has run when it starts; once it has run the worker
\* calls no fetch_one and starts no handler, and reports stopped(); after
\* that nothing is executed and what is still queued stays there.
C9_ExitSeen == shouldExit => wpc \in {"while", "stopped"}

C9_ExitInTurn ==
    (HandlerStarts /\ cur'.op = "signalThreadShouldExit")
        => executed = cur'.id - 1

C9_Discarded ==
    wpc = "stopped"
        => /\ wpc' = "stopped"
           /\ executed' = executed
           /\ logic' = logic
           /\ Len(queue') >= Len(queue)
           /\ SubSeq(queue', 1, Len(queue)) = queue

C9_ExitAfterItsTurn ==
    /\ []C9_ExitSeen
    /\ [][C9_ExitInTurn /\ C9_Discarded]_vars

\* the worker has left after running a handler and the exit signal, and a
\* handler dispatched behind the exit signal is left in the queue
C9_Witness ==
    /\ wpc = "stopped"
    /\ executed >= 2
    /\ queue # << >>

\* C10: the worker runs a queued handler only after the Store was opened
\* and Logic::load has run.
C10_LoadedBeforeFirstHandler ==
    (wpc = "handler" \/ executed > 0) => (storeOpen = "ok" /\ loaded)

\* C18: once onStop has dispatched the exit signal to the running worker,
\* the worker eventually leaves its loop and reports stopped(), whatever is
\* queued and whatever m_checkSources is.
C18_StopTerminates ==
    (stopping /\ isThreadRunning) ~> (wpc = "stopped" /\ stoppedCalls = 1)

\* the worker has stopped in the middle of a pass, handlers left behind
C18_Witness ==
    /\ wpc = "stopped"
    /\ stoppedCalls = 1
    /\ m_checkSources
    /\ logic.cursor >= 1
    /\ queue # << >>

\* C11: a call that adds a Source whose identity Logic already holds leaves
\* the queue as it was (the call itself turns the duplicate down).
C11_DuplicateRejectedAtCall ==
    [][(Len(queue') > Len(queue) /\ Last(queue').op \in {"add", "addStatic"})
          => ~LogicKnows(logic, Last(queue').arg)]_vars

\* handler i of the queue will be reached: the exit signal has not run and
\* is not queued ahead of it
AheadOfExit(i) ==
    /\ ~shouldExit
    /\ ~(wpc = "handler" /\ cur.op = "signalThreadShouldExit")
    /\ \A j \in 1..(i - 1) : queue[j].op # "signalThreadShouldExit"

\* C12: an expiry of the check timer leaves m_checkSources alone and appends
\* one setCheckSources handler; the flag goes from false to true only when
\* the worker runs that handler, after every handler dispatched before it;
\* and a setCheckSources handler dispatched before the exit signal leads to
\* the flag being set and fetch_one being called.
C12_ExpiryEnqueues ==
    (fires' # fires)
        => /\ m_checkSources' = m_checkSources
           /\ Len(queue') = Len(queue) + 1
           /\ SubSeq(queue', 1, Len(queue)) = queue
           /\ Last(queue').op = "setCheckSources"

C12_SetInTurn ==
    (~m_checkSources /\ m_checkSources')
        => (HandlerReturns /\ cur.op = "setCheckSources" /\ cur.id = executed + 1)

C12_SetFlagPending ==
    \E i \in DOMAIN queue : queue[i].op = "setCheckSources" /\ AheadOfExit(i)

C12_TimerSetsFlagInTurn ==
    /\ [][C12_ExpiryEnqueues /\ C12_SetInTurn]_vars
    /\ (C12_SetFlagPending ~> (m_checkSources /\ wpc = "fetching"))

\* the worker ran the timer's setCheckSources and has begun a new pass
C12_Witness ==
    /\ fires >= 1
    /\ cur.op = "setCheckSources"
    /\ m_checkSources
    /\ wpc = "fetching"

IngressOps == {"receiveValidation", "ledgerClosed"}

\* C13: a receiveValidation / ledgerClosed call made while the service is not
\* stopping goes on to dispatch its Logic operation to the worker.  (Such a
\* call is the only step of a caller that changes neither the queue nor
\* callerInLogic.)
C13_AcceptedCallDispatches ==
    [][(calls' # calls /\ queue' = queue /\ callerInLogic' = callerInLogic
            /\ ~stopping)
          => ingress' \in IngressOps]_vars

\* C13, second half: every receiveValidation / ledgerClosed call that found
\* the service not stopping has its Logic operation executed: once the worker
\* has left its loop, none is waiting to be dispatched or left in the queue.
C13_EveryAcceptedCallRuns ==
    wpc = "stopped"
        => /\ ingress = "idle"
           /\ \A i \in DOMAIN queue : queue[i].op \notin IngressOps

\* C13, what holds in every build: the two calls never run Logic themselves and do not
\* depend on where the worker is; the worker runs each handler at most once
\* and each run is one Logic operation; the handlers wait in dispatch order
\* and a running worker that has not run the exit signal always goes on to
\* take the oldest one, so that a handler dispatched ahead of the exit
\* signal to a running worker is eventually run.
C13_CallerDoesNotRunLogic ==
    (calls' # calls \/ ingress' # ingress)
        => (logic' = logic /\ wpc' = wpc /\ executed' = executed)

C13_OneRunEach ==
    /\ HandlerStarts => cur'.id = executed + 1
    /\ (logic'.validations # logic.validations \/ (HandlerReturns /\ cur.op = "receiveValidation"))
          => (HandlerReturns /\ cur.op = "receiveValidation"
                /\ logic'.validations = logic.validations + 1)
    /\ (logic'.ledgers # logic.ledgers \/ (HandlerReturns /\ cur.op = "ledgerClosed"))
          => (HandlerReturns /\ cur.op = "ledgerClosed"
                /\ logic'.ledgers = logic.ledgers + 1)

\* the handlers wait in the order of their ids, the next one to run first
C13_QueueInOrder ==
    \A i \in DOMAIN queue :
        queue[i].id = executed + (IF wpc = "handler" THEN 1 ELSE 0) + i

\* a running worker that has not run the exit signal takes the oldest handler
C13_WorkerTakesNext ==
    (isThreadRunning /\ wpc # "handler" /\ ~shouldExit /\ queue # << >>)
        ~> (wpc = "handler")

C13_FireAndForget ==
    /\ []C13_QueueInOrder
    /\ [][C13_CallerDoesNotRunLogic /\ C13_OneRunEach]_vars
    /\ C13_WorkerTakesNext

\* a ledgerClosed handler has run although a stop was requested meanwhile
C13_Witness ==
    /\ wpc = "while"
    /\ cur.op = "ledgerClosed"
    /\ logic.ledgers >= 1
    /\ stopping
    /\ ~shouldExit

\* C14: whatever the pull brings (success, transient failure, malformed
\* content), fetch_one moves the rotation on by one Source and returns the
\* number left; the call that returns 0 clears the flag and arms the timer;
\* so the N-th call of a pass over N Sources returns 0 also when pulls failed.
C14_FetchAdvances ==
    (wpc = "fetching" /\ wpc' # "fetching" /\ Len(logic.sources) >= 1)
        => /\ logic'.cursor = (logic.cursor + 1) % Len(logic.sources)
           /\ Last(rets') = Len(logic.sources) - (logic.cursor + 1)
           /\ logic'.sources = logic.sources

C14_ZeroClosesPass ==
    FetchReturns(0) => (~m_checkSources' /\ timer' = "checkEverySeconds")

C14_NthCallEndsPass ==
    (passN >= 1 /\ Len(logic.sources) = passN /\ Len(rets) = passN)
        => (Last(rets) = 0 /\ logic.cursor = 0)

C14_FailedPullDoesNotBlock ==
    /\ []C14_NthCallEndsPass
    /\ [][C14_FetchAdvances /\ C14_ZeroClosesPass]_vars

\* a pass over two Sources has completed and both are flagged degraded
C14_Witness ==
    /\ passN = 2
    /\ rets = <<1, 0>>
    /\ logic.degraded = Range(logic.sources)
    /\ wpc = "run_one"
    /\ turnFetches = 1
    /\ ~m_checkSources
    /\ timer = "checkEverySeconds"

\* C15: a print or sources request (the caller entering or leaving
\* Logic::rpcPrint / Logic::rpcSources) leaves the queue, m_checkSources, the
\* timer and Logic's state as they were.
C15_QueriesChangeNothing ==
    [][(callerInLogic' # callerInLogic)
          => /\ queue' = queue
             /\ nextId' = nextId
             /\ m_checkSources' = m_checkSources
             /\ timer' = timer
             /\ logic' = logic]_vars

\* a print request is being served while a handler waits and the timer is armed
C15_Witness ==
    /\ callerInLogic = "rpcPrint"
    /\ queue # << >>
    /\ timer = "checkEverySeconds"

\* C16: the timer is armed only while m_checkSources is false; at most one
\* setCheckSources handler waits in the queue; m_checkSources changes only
\* in steps of the worker (a handler returning, fetch_one returning).
C16_ArmedOnlyWhenClear == timer = "checkEverySeconds" => ~m_checkSources

C16_OneSetFlagPending ==
    Cardinality({i \in DOMAIN queue : queue[i].op = "setCheckSources"}) <= 1

C16_FlagOnWorker ==
    (m_checkSources' # m_checkSources)
        => (HandlerReturns \/ (wpc = "fetching" /\ wpc' # "fetching"))

C16_TimerAndFlag ==
    /\ [](C16_ArmedOnlyWhenClear /\ C16_OneSetFlagPending)
    /\ [][C16_FlagOnWorker]_vars

\* the timer has expired a second time and its handler waits, the flag clear
C16_Witness ==
    /\ fires = 2
    /\ ~m_checkSources
    /\ timer = "inactive"
    /\ \E i \in DOMAIN queue : queue[i].op = "setCheckSources"

\* C17: stopped() is reported at most once, by onStop itself when the thread
\* is not running and otherwise by the worker as it leaves its loop on the
\* exit signal; once it is reported the worker calls no fetch_one and runs
\* no handler.
C17_Once ==
    /\ stoppedCalls <= 1
    /\ stoppedCalls = 1 => (stopping /\ wpc \in {"notStarted", "stopped"})

C17_ByWhom ==
    (stoppedCalls' # stoppedCalls)
        => \/ (~stopping /\ stopping' /\ ~isThreadRunning /\ queue' = queue)
           \/ (wpc = "while" /\ wpc' = "stopped" /\ shouldExit /\ stopping)

C17_NothingAfter ==
    (stoppedCalls >= 1)
        => (executed' = executed /\ logic' = logic /\ wpc' = wpc)

C17_StoppedOnce ==
    /\ []C17_Once
    /\ [][C17_ByWhom /\ C17_NothingAfter]_vars

\* the worker has run handlers, left its loop and reported stopped()
C17_Witness ==
    /\ wpc = "stopped"
    /\ stoppedCalls = 1
    /\ executed >= 2
    /\ shouldExit

\* C19: m_checkSources is true from construction: the worker's first
\* fetch_one comes right after init, before the first handler starts; Logic
\* then holds what load brought and nothing that was submitted through the
\* queue; and the timer is not armed until the first pass has completed.
C19_BeforeFirstHandler ==
    (executed = 0 /\ wpc \in {"while", "fetching"} /\ rets = << >>)
        => /\ m_checkSources
           /\ timer = "inactive"
           /\ logic.sources = (IF loaded THEN stored ELSE << >>)
           /\ logic.statics = {}

C19_FirstPassOpen == (fires = 0 /\ m_checkSources) => timer = "inactive"

C19_FetchThenHandler == (HandlerStarts /\ executed = 0) => rets # << >>

C19_FirstFetchFirst ==
    /\ [](C19_BeforeFirstHandler /\ C19_FirstPassOpen)
    /\ [][C19_FetchThenHandler]_vars

\* the first fetch_one is under way while a submitted Source waits in the queue
C19_Witness ==
    /\ wpc = "fetching"
    /\ executed = 0
    /\ rets = << >>
    /\ \E i \in DOMAIN queue : queue[i].op \in {"add", "addStatic"}

\* C20: a receiveValidation / ledgerClosed call goes on to dispatch only if
\* it found the service not stopping, and only such a call enqueues one of
\* the two handlers; once the worker has run the exit signal nothing is
\* executed any more, so a handler that a racing call put behind the exit
\* signal never runs.
C20_DispatchOnlyIfNotStopping ==
    /\ (ingress = "idle" /\ ingress' # "idle") => ~stopping
    /\ (Len(queue') > Len(queue) /\ Last(queue').op \in IngressOps)
          => (ingress = Last(queue').op /\ ingress' = "idle")

C20_NothingAfterExit ==
    shouldExit
        => /\ logic' = logic
           /\ executed' = executed
           /\ wpc' \in {"while", "stopped"}

C20_StoppingRace ==
    [][C20_DispatchOnlyIfNotStopping /\ C20_NothingAfterExit]_vars

\* the worker has left; a handler dispatched by a call that had found the
\* service not stopping is left behind
C20_Witness ==
    /\ wpc = "stopped"
    /\ stopping
    /\ \E i \in DOMAIN queue : queue[i].op \in IngressOps

====
